---- MODULE Spec2Model ----
(***************************************************************************)
(* The data-refresh coordinator of the Swift Command integration           *)
(* (src/swift_command/__init__.py, class SwiftCommandCoordinator).         *)
(*                                                                         *)
(* Time is counted in whole hours since a local midnight; the local clock  *)
(* and the UTC clock are the same instant, so differences of timestamps    *)
(* are the same on both.  Every action is the code that runs between two   *)
(* awaits of a coroutine: it consumes the answer to the request the        *)
(* coroutine is suspended on and runs up to the next request it issues.    *)
(***************************************************************************)
EXTENDS Integers, Sequences, FiniteSets, TLC

\* ------------------------------------------------------------------ bounds
StartClock == 18        \* the hour at which the coordinator is constructed
TickHours  == 2         \* granularity of the clock
MaxClock   == 26        \* the clock stops here
MaxPathLen == 4         \* longest path handed to the nested-value lookup
MaxOps     == 2         \* number of refresh operations started in one run

\* ------------------------------------------------------- program constants
DEFAULT_NIGHT_START == 20
DEFAULT_NIGHT_END   == 8
ThrottleHours       == 4
ReauthHours         == 6
HoursPerDay         == 24

None  == "None"         \* a null string-valued field
Never == -1             \* a null timestamp or date

Procs == {"sched", "force"}
\* Every coroutine of the coordinator: the two refreshes and the command sender.
Coroutines == Procs \cup {"send"}

VARIABLES
    customer_id, bearer_token, asset_id,
    last_full_update_time, last_can_update_time, reauth_initiated_at,
    counter_date, api_calls_today, api_can_calls_today,
    api_calls_failed_today, api_can_calls_failed_today,
    night_start_hour, night_end_hour,
    data,
    refresh_requested,
    clock,
    pc, now, throttle_can, attempt, hdr, customer_data,
    log, pre, result, opsStarted,
    call

session  == <<customer_id, bearer_token, asset_id>>
stamps   == <<last_full_update_time, last_can_update_time, reauth_initiated_at>>
counters == <<counter_date, api_calls_today, api_can_calls_today,
              api_calls_failed_today, api_can_calls_failed_today>>
options  == <<night_start_hour, night_end_hour>>
host     == <<refresh_requested>>
util     == <<call>>
locals   == <<pc, now, throttle_can, attempt, hdr, customer_data>>
ghosts   == <<log, pre, result, opsStarted>>
vars     == <<session, stamps, counters, options, util, host, data, clock, locals, ghosts>>

\* ---------------------------------------------------------------- the API
Tokens == {"t1"}

\* What a request can be answered with: an HTTP status, a transport failure,
\* or a 2xx answer whose body is not JSON.
Outs == {"200", "401", "500", "network", "timeout", "bad_json"}

\* The exception response handling raises (raise_for_status, then json()).
ExcOf(out) ==
    CASE out = "200"                   -> "none"
      [] out \in {"401", "500"}        -> "HTTPStatusError"
      [] out \in {"network", "timeout"} -> "RequestError"
      [] out = "bad_json"              -> "JSONDecodeError"

\* Sample login bodies.
LoginBodyNames == {"cid_t1", "cid_null", "cid_NULL", "cid_only", "token_only"}
LoginBody(n) ==
    CASE n = "cid_t1"     -> [customerID |-> "cid", token |-> "t1"]
      [] n = "cid_null"   -> [customerID |-> "cid", token |-> "null"]
      [] n = "cid_NULL"   -> [customerID |-> "cid", token |-> "NULL"]
      [] n = "cid_only"   -> [customerID |-> "cid", token |-> None]
      [] n = "token_only" -> [customerID |-> None,  token |-> "t1"]

\* Sample customer-data bodies: the vehicles list, each vehicle given by its
\* asset field.
CustomerBodyNames == {"with_asset", "no_vehicles_key", "empty_vehicles",
                      "vehicle_without_asset", "not_object"}
CustomerBody(n) ==
    CASE n = "with_asset"     -> [is_object |-> TRUE, has_vehicles |-> TRUE,
                                  vehicles |-> <<"asset1">>]
      [] n = "no_vehicles_key" -> [is_object |-> TRUE, has_vehicles |-> FALSE,
                                  vehicles |-> <<>>]
      [] n = "empty_vehicles" -> [is_object |-> TRUE, has_vehicles |-> TRUE,
                                  vehicles |-> <<>>]
      [] n = "vehicle_without_asset" ->
                                 [is_object |-> TRUE, has_vehicles |-> TRUE,
                                  vehicles |-> <<None>>]
      [] n = "not_object"     -> [is_object |-> FALSE, has_vehicles |-> FALSE,
                                  vehicles |-> <<>>]

\* Sample CAN bodies.
CanBodyNames == {"object", "empty_object", "array"}
CanBody(n) ==
    CASE n = "object"       -> [is_dict |-> TRUE,  size |-> 2]
      [] n = "empty_object" -> [is_dict |-> TRUE,  size |-> 0]
      [] n = "array"        -> [is_dict |-> FALSE, size |-> 1]

Responses(bodies) ==
    {[out |-> "200", body |-> b] : b \in bodies}
        \cup {[out |-> o, body |-> "-"] : o \in Outs \ {"200"}}

LoginResponses    == Responses(LoginBodyNames)
CustomerResponses == Responses(CustomerBodyNames)
CanResponses      == Responses(CanBodyNames)

\* ------------------------------------------------------------ pure helpers
Date(t) == t \div HoursPerDay
Hour(t) == t % HoursPerDay

\* Faulty variant: the counters are reset on the first refresh only.
NeedsRolloverFirstOnly(cdate, today) == cdate = Never

\* Faulty variant: the counters are reset by every refresh.
NeedsRolloverAlways(cdate, today) == TRUE

\* _rollover_counters_if_needed: the test.
NeedsRollover(cdate, today) == cdate # today

\* Faulty variant: a window that does not span midnight is the interval
\* from night_start to night_end.
IsNightTimeWithinWindow(hour, night_start, night_end) ==
    IF night_start <= night_end
    THEN (hour >= night_start) /\ (hour < night_end)
    ELSE (hour >= night_start) \/ (hour < night_end)

\* _async_update_data: is_night_time.
IsNightTime(hour, night_start, night_end) ==
    (hour >= night_start) \/ (hour < night_end)

\* _async_update_data: throttle_can.
ThrottleCan(t, night_start, night_end, last_full) ==
    /\ IsNightTime(Hour(t), night_start, night_end)
    /\ last_full # Never
    /\ (t - last_full) < ThrottleHours

\* Faulty variant: a prompt is allowed again at exactly 6 hours.
ShouldPromptReauthAtSix(utcnow, initiated_at) ==
    IF initiated_at = Never THEN TRUE
    ELSE (utcnow - initiated_at) >= ReauthHours

\* _should_prompt_reauth.
ShouldPromptReauth(utcnow, initiated_at) ==
    IF initiated_at = Never THEN TRUE
    ELSE (utcnow - initiated_at) > ReauthHours

\* customer_data.get("vehicles", [{}])[0].get("asset")
FirstAsset(body) ==
    IF ~body.is_object THEN [exc |-> "AttributeError", asset |-> None]
    ELSE LET vs == IF body.has_vehicles THEN body.vehicles ELSE <<None>>
         IN  IF Len(vs) = 0 THEN [exc |-> "IndexError", asset |-> None]
             ELSE [exc |-> "none", asset |-> vs[1]]

\* Faulty variant: any non-empty body counts as a CAN payload.
IsNonEmptyBody(body) == body.size > 0

\* isinstance(can_bus_data, dict) and can_bus_data
IsNonEmptyDict(body) == body.is_dict /\ body.size > 0

\* Faulty variant: a 401 is retried on every attempt.
RetryOn401Always(out, att) == out = "401"

\* Faulty variant: every HTTP error of the first attempt is retried.
RetryOnAnyStatus(out, att) == att = 1

\* The 401 branch of the except clauses: retried on the first attempt only.
RetryOn401(out, att) == out = "401" /\ att = 1

\* str(token).lower(), on the tokens of the sample bodies.
Lower(str) == IF str = "NULL" THEN "null" ELSE str

\* Faulty variant: the literal "null" is kept as a token.
TokenOrNoneKeepsNull(token) == token

\* _login: `if not token or str(token).lower() == "null": token = None`.
TokenOrNone(token) ==
    IF token = None \/ Lower(token) = "null" THEN None ELSE token

\* _login: the session fields it leaves and the exception it raises.
Login(resp, cid, tok) ==
    LET exc == ExcOf(resp.out) IN
    CASE exc = "none" ->
            LET b     == LoginBody(resp.body)
                token == TokenOrNone(b.token)
            IN  [cid |-> b.customerID, tok |-> token,
                 exc |-> IF b.customerID = None \/ token = None
                         THEN "UpdateFailed" ELSE "none"]
      [] exc \in {"RequestError", "HTTPStatusError"} ->
            [cid |-> cid, tok |-> tok, exc |-> "UpdateFailed"]
      [] OTHER ->
            [cid |-> cid, tok |-> tok, exc |-> exc]

\* ------------------------------------------------------- util.py
\* Python values as far as the helpers tell them apart: None, a number, a
\* dict, a list; a path element is a string or an integer.
NoneV    == [t |-> "none", v |-> 0]
Num(x)   == [t |-> "num", v |-> x]
Dict(f)  == [t |-> "dict", v |-> f]
List(sq) == [t |-> "list", v |-> sq]
KStr(str) == [t |-> "str", v |-> str]
KInt(i)  == [t |-> "int", v |-> i]

\* Amperes, volts and watts are counted in tenths, their product in
\* hundredths.
Abs(x) == IF x < 0 THEN -x ELSE x

\* round(x, 1) of x given in hundredths, in tenths: to the nearest tenth, a
\* tie to the even one (the sample products that end in 5 hundredths are
\* exact in binary, so the tie is a real one).
Round1(h) ==
    LET q == h \div 10
        r == h % 10
    IN  IF r < 5 THEN q
        ELSE IF r > 5 THEN q + 1
        ELSE IF q % 2 = 0 THEN q ELSE q + 1

\* Faulty variant: the sign of the current is kept.
CalculatePowerWattsSigned(amps, measured_volts, default_volts, absolute) ==
    IF amps.t = "none" THEN NoneV
    ELSE LET v == IF measured_volts.t # "none" THEN measured_volts.v
                  ELSE default_volts.v
         IN  Num(Round1(amps.v * v))

\* calculate_power_watts (numbers never make a * v raise, so the except
\* clause is not reached).
CalculatePowerWatts(amps, measured_volts, default_volts, absolute) ==
    IF amps.t = "none" THEN NoneV
    ELSE LET v == IF measured_volts.t # "none" THEN measured_volts.v
                  ELSE default_volts.v
             a == IF absolute THEN Abs(amps.v) ELSE amps.v
         IN  Num(Round1(a * v))

\* `isinstance(current, dict) and key in current` (the sample dicts have
\* string keys).
HasKey(current, key) ==
    current.t = "dict" /\ key.t = "str" /\ key.v \in DOMAIN current.v

\* Faulty variant: only the first element of a list can be reached.
CanIndexFirstOnly(current, key) ==
    current.t = "list" /\ key.t = "int" /\ key.v = 0 /\ Len(current.v) > 0

\* `isinstance(current, list) and isinstance(key, int) and 0 <= key < len(current)`
CanIndex(current, key) ==
    current.t = "list" /\ key.t = "int" /\ 0 <= key.v /\ key.v < Len(current.v)

\* The loop of _get_nested_value from its k-th key on.
RECURSIVE Walk(_, _, _)
Walk(current, keys, k) ==
    IF k > Len(keys) THEN current
    ELSE IF HasKey(current, keys[k]) THEN Walk(current.v[keys[k].v], keys, k + 1)
    ELSE IF CanIndex(current, keys[k]) THEN Walk(current.v[keys[k].v + 1], keys, k + 1)
    ELSE NoneV

GetNestedValue(d, keys) == Walk(d, keys, 1)

\* The sample arguments of the helpers.
AmpsSamples    == {NoneV, Num(-20), Num(0), Num(5), Num(20)}
VoltsSamples   == {NoneV, Num(0), Num(120), Num(125), Num(132)}
DefaultSamples == {Num(120), Num(2300)}

SpecExample == Dict([a |-> Dict([b |-> List(<<Dict([c |-> Num(1)])>>)])])
DataSamples ==
    {SpecExample, List(<<Num(7), Dict([a |-> NoneV, c |-> Num(3)])>>), NoneV}
KeySamples  ==
    {KStr("a"), KStr("b"), KStr("c"), KStr("x"), KInt(-1), KInt(0), KInt(1)}
PathSamples == UNION {[1..n -> KeySamples] : n \in 0..MaxPathLen}

NoCall == [fn |-> "none"]

\* ------------------------------------------------------------------- Init
NightOptions == {<<DEFAULT_NIGHT_START, DEFAULT_NIGHT_END>>, <<8, 20>>}

NoSnapshot == [customer_data |-> "-", can_bus_data |-> "-"]

Snapshot == [counter_date |-> Never, calls |-> 0, can_calls |-> 0,
             calls_failed |-> 0, can_calls_failed |-> 0,
             last_full |-> Never, last_can |-> Never, reauth |-> Never,
             customer_id |-> None, bearer_token |-> None, asset_id |-> None]

Init ==
    /\ customer_id = None /\ bearer_token = None /\ asset_id = None
    /\ last_full_update_time = Never
    /\ last_can_update_time = Never
    /\ reauth_initiated_at = Never
    /\ counter_date = Never
    /\ api_calls_today = 0 /\ api_can_calls_today = 0
    /\ api_calls_failed_today = 0 /\ api_can_calls_failed_today = 0
    /\ \E o \in NightOptions : night_start_hour = o[1] /\ night_end_hour = o[2]
    /\ data = NoSnapshot
    /\ refresh_requested = FALSE
    /\ call = NoCall
    /\ clock = StartClock
    /\ pc = [p \in Coroutines |-> "idle"]
    /\ now = [p \in Coroutines |-> Never]
    /\ throttle_can = [p \in Coroutines |-> FALSE]
    /\ attempt = [p \in Coroutines |-> 1]
    /\ hdr = [p \in Coroutines |-> None]
    /\ customer_data = [p \in Coroutines |-> "-"]
    /\ log = [p \in Coroutines |-> <<>>]
    /\ pre = [p \in Coroutines |-> Snapshot]
    /\ result = [p \in Coroutines |-> "none"]
    /\ opsStarted = 0

\* ---------------------------------------------------------- step helpers
CurrentState ==
    [counter_date |-> counter_date, calls |-> api_calls_today,
     can_calls |-> api_can_calls_today,
     calls_failed |-> api_calls_failed_today,
     can_calls_failed |-> api_can_calls_failed_today,
     last_full |-> last_full_update_time, last_can |-> last_can_update_time,
     reauth |-> reauth_initiated_at,
     customer_id |-> customer_id, bearer_token |-> bearer_token,
     asset_id |-> asset_id]

Ev(req, resp, tok) == [req |-> req, out |-> resp.out, body |-> resp.body, tok |-> tok]

\* The coroutine p goes on to its next request.
Goto(p, newpc, att, h) ==
    /\ pc' = [pc EXCEPT ![p] = newpc]
    /\ attempt' = [attempt EXCEPT ![p] = att]
    /\ hdr' = [hdr EXCEPT ![p] = h]
    /\ UNCHANGED <<now, throttle_can, result>>

\* The coroutine p ends: res is "ok" or the exception that leaves it.
End(p, res) ==
    /\ pc' = [pc EXCEPT ![p] = "idle"]
    /\ result' = [result EXCEPT ![p] = res]
    /\ UNCHANGED <<now, throttle_can, attempt, hdr>>

Logged(p, evs) ==
    /\ log' = [log EXCEPT ![p] = @ \o evs]
    /\ UNCHANGED <<pre, opsStarted>>

\* The locals of the coroutine p that starts; those of a coroutine that has
\* returned are gone, and so is what was recorded of it.
Fresh(f, p, v, init) ==
    [q \in Coroutines |-> IF q = p THEN v ELSE IF pc[q] = "idle" THEN init ELSE f[q]]

\* The first lines of a refresh: the date rollover, then the login or the
\* first customer-data request (counted before it is sent).
Start(p, thr) ==
    /\ pc[p] = "idle"
    /\ opsStarted < MaxOps
    /\ LET today == Date(clock)
           roll  == NeedsRollover(counter_date, today)
           login == bearer_token = None
       IN  /\ counter_date' = IF roll THEN today ELSE counter_date
           /\ api_calls_today' =
                 (IF roll THEN 0 ELSE api_calls_today) + (IF login THEN 0 ELSE 1)
           /\ api_can_calls_today' = IF roll THEN 0 ELSE api_can_calls_today
           /\ api_calls_failed_today' = IF roll THEN 0 ELSE api_calls_failed_today
           /\ api_can_calls_failed_today' =
                 IF roll THEN 0 ELSE api_can_calls_failed_today
           /\ pc' = [pc EXCEPT ![p] = IF login THEN "login" ELSE "cust"]
    /\ now' = Fresh(now, p, clock, Never)
    /\ throttle_can' = Fresh(throttle_can, p, thr, FALSE)
    /\ attempt' = Fresh(attempt, p, 1, 1)
    /\ hdr' = Fresh(hdr, p, bearer_token, None)
    /\ customer_data' = Fresh(customer_data, p, "-", "-")
    /\ log' = Fresh(log, p, <<>>, <<>>)
    /\ pre' = Fresh(pre, p, CurrentState, Snapshot)
    /\ result' = Fresh(result, p, "none", "none")
    /\ opsStarted' = opsStarted + 1
    /\ refresh_requested' = IF p = "sched" THEN FALSE ELSE refresh_requested
    /\ UNCHANGED <<session, stamps, options, util, data, clock>>

\* The answer to a login whose failure leaves the operation as it is raised
\* (the login before the loop, and the re-logins of the forced refresh).  On
\* success the request `nextpc` is counted and sent as attempt att.
LoginThen(p, resp, nextpc, att) ==
    LET r == Login(resp, customer_id, bearer_token) IN
    /\ customer_id' = r.cid
    /\ bearer_token' = r.tok
    /\ Logged(p, <<Ev("login", resp, r.tok)>>)
    /\ IF r.exc = "none"
       THEN /\ Goto(p, nextpc, att, r.tok)
            /\ api_calls_today' = api_calls_today + (IF nextpc = "cust" THEN 1 ELSE 0)
            /\ api_can_calls_today' =
                  api_can_calls_today + (IF nextpc = "can" THEN 1 ELSE 0)
       ELSE /\ End(p, r.exc)
            /\ UNCHANGED <<api_calls_today, api_can_calls_today>>
    /\ UNCHANGED <<asset_id, stamps, counter_date, api_calls_failed_today,
                   api_can_calls_failed_today, options, util, host, data, clock, customer_data>>

\* Faulty variant: the operation ends without handing its snapshot over.
PublishNothing(p, cust, can) ==
    /\ last_full_update_time' = now[p]
    /\ data' = data
    /\ End(p, "ok")

\* Faulty variant: the time of the last full update is never written.
PublishWithoutStamp(p, cust, can) ==
    /\ last_full_update_time' = last_full_update_time
    /\ data' = [customer_data |-> cust, can_bus_data |-> can]
    /\ End(p, "ok")

\* Faulty variant: a throttled cycle leaves the time of the last full update.
PublishStampsUnthrottledOnly(p, cust, can) ==
    /\ last_full_update_time' =
          IF throttle_can[p] THEN last_full_update_time ELSE now[p]
    /\ data' = [customer_data |-> cust, can_bus_data |-> can]
    /\ End(p, "ok")

\* The operation ends with the snapshot {customer_data, can_bus_data}.
Publish(p, cust, can) ==
    /\ last_full_update_time' = now[p]
    /\ data' = [customer_data |-> cust, can_bus_data |-> can]
    /\ End(p, "ok")

\* ------------------------------------------- scheduled cycle (_async_update_data)
SchedStart ==
    Start("sched", ThrottleCan(clock, night_start_hour, night_end_hour,
                               last_full_update_time))

SchedLogin(resp) ==
    /\ pc["sched"] = "login"
    /\ LoginThen("sched", resp, "cust", 1)

\* Faulty variant: the throttle is ignored.
SchedWantsCanUnthrottled(asset, thr) == asset # None

\* The CAN request is sent when there is an asset id and no throttle.
SchedWantsCan(asset, thr) == asset # None /\ ~thr

\* Faulty variant: the 401 handler forgets the asset id with the token.
UnauthorizedClearsSession(token, asset) == [tok |-> None, asset |-> None]

\* The 401 handler of the cycle: `self.bearer_token = None`, nothing else.
Unauthorized(token, asset) == [tok |-> None, asset |-> asset]

\* Faulty variant: a cycle that skips the CAN request hands on the CAN
\* section published before.
SkippedCanKeepsPrevious(previous) == previous

\* `can_bus_data: dict = {}`: what a cycle that skips the CAN request returns.
SkippedCan(previous) == "empty_object"

SchedCustomer(resp) ==
    /\ pc["sched"] = "cust"
    /\ LET p   == "sched"
           exc == ExcOf(resp.out)
           ev  == <<Ev("cust", resp, hdr[p])>>
           fa  == FirstAsset(CustomerBody(resp.body))
       IN
       /\ Logged(p, ev)
       /\ UNCHANGED <<customer_id, last_can_update_time, reauth_initiated_at,
                      counter_date, api_calls_today, api_can_calls_failed_today,
                      options, util, host, clock>>
       /\ CASE exc = "none" /\ fa.exc # "none" ->
                 \* the asset lookup raises: nothing catches it
                 /\ customer_data' = [customer_data EXCEPT ![p] = resp.body]
                 /\ End(p, fa.exc)
                 /\ UNCHANGED <<bearer_token, asset_id, last_full_update_time,
                                api_can_calls_today, api_calls_failed_today, data>>
            [] exc = "none" /\ fa.exc = "none" ->
                 /\ customer_data' = [customer_data EXCEPT ![p] = resp.body]
                 /\ asset_id' = fa.asset
                 /\ UNCHANGED <<bearer_token, api_calls_failed_today>>
                 /\ IF SchedWantsCan(fa.asset, throttle_can[p])
                    THEN /\ api_can_calls_today' = api_can_calls_today + 1
                         /\ Goto(p, "can", attempt[p], bearer_token)
                         /\ UNCHANGED <<last_full_update_time, data>>
                    ELSE /\ Publish(p, resp.body, SkippedCan(data.can_bus_data))
                         /\ UNCHANGED api_can_calls_today
            [] exc = "HTTPStatusError" /\ RetryOn401(resp.out, attempt[p]) ->
                 /\ bearer_token' = Unauthorized(bearer_token, asset_id).tok
                 /\ asset_id' = Unauthorized(bearer_token, asset_id).asset
                 /\ Goto(p, "relogin", attempt[p], None)
                 /\ UNCHANGED <<last_full_update_time, api_can_calls_today,
                                api_calls_failed_today, data, customer_data>>
            [] exc = "HTTPStatusError" /\ ~RetryOn401(resp.out, attempt[p]) ->
                 /\ api_calls_failed_today' = api_calls_failed_today + 1
                 /\ End(p, "UpdateFailed")
                 /\ UNCHANGED <<bearer_token, asset_id, last_full_update_time,
                                api_can_calls_today, data, customer_data>>
            [] exc = "RequestError" ->
                 /\ api_calls_failed_today' = api_calls_failed_today + 1
                 /\ End(p, "UpdateFailed")
                 /\ UNCHANGED <<bearer_token, asset_id, last_full_update_time,
                                api_can_calls_today, data, customer_data>>
            [] exc = "JSONDecodeError" ->
                 \* no except clause of the cycle names it
                 /\ End(p, exc)
                 /\ UNCHANGED <<bearer_token, asset_id, last_full_update_time,
                                api_can_calls_today, api_calls_failed_today, data,
                                customer_data>>

\* _maybe_start_reauth: the attempt time it leaves and what it did.
MaybeStartReauth(utcnow, initiated_at) ==
    IF ShouldPromptReauth(utcnow, initiated_at)
    THEN [at |-> utcnow, did |-> "prompt"]
    ELSE [at |-> initiated_at, did |-> "suppressed"]

\* Faulty variant: the loop is left whatever the re-login did.
ReloginOutcomeAlwaysBreak(exc) == "break"

\* `try: await self._login(); continue / except UpdateFailed: break`; any
\* other exception of the login leaves the cycle as it is.
ReloginOutcome(exc) ==
    CASE exc = "none"         -> "continue"
      [] exc = "UpdateFailed" -> "break"
      [] OTHER                -> "raise"

SchedRelogin(resp) ==
    /\ pc["sched"] = "relogin"
    /\ LET p  == "sched"
           r  == Login(resp, customer_id, bearer_token)
           ev == Ev("login", resp, r.tok)
           ra == MaybeStartReauth(clock, reauth_initiated_at)
       IN
       /\ customer_id' = r.cid
       /\ bearer_token' = r.tok
       /\ UNCHANGED <<asset_id, last_full_update_time, last_can_update_time,
                      counter_date, api_can_calls_today, api_calls_failed_today,
                      api_can_calls_failed_today, options, util, host, data, clock,
                      customer_data>>
       /\ CASE ReloginOutcome(r.exc) = "continue" ->
                 \* the second attempt
                 /\ api_calls_today' = api_calls_today + 1
                 /\ Goto(p, "cust", 2, r.tok)
                 /\ Logged(p, <<ev>>)
                 /\ UNCHANGED reauth_initiated_at
            [] ReloginOutcome(r.exc) = "break" ->
                 \* after the loop: the reauth-prompt policy, then the fatal failure
                 /\ reauth_initiated_at' = ra.at
                 /\ Logged(p, <<ev, [req |-> "reauth", out |-> ra.did,
                                     body |-> "-", tok |-> "-"]>>)
                 /\ End(p, "UpdateFailed")
                 /\ UNCHANGED api_calls_today
            [] OTHER ->
                 /\ Logged(p, <<ev>>)
                 /\ End(p, r.exc)
                 /\ UNCHANGED <<api_calls_today, reauth_initiated_at>>

\* Faulty variant: an HTTP error status is not counted.
CanFailureCountedTransportOnly(exc) == exc \in {"RequestError", "JSONDecodeError"}

\* Faulty variant: only HTTP errors are counted.
CanFailureCountedHttpOnly(exc) == exc = "HTTPStatusError"

\* Every exception of the CAN fetch is caught and counted.
CanFailureCounted(exc) == exc # "none"

SchedCan(resp) ==
    /\ pc["sched"] = "can"
    /\ LET p   == "sched"
           exc == ExcOf(resp.out)
           can == IF exc = "none" THEN resp.body ELSE "empty_object"
       IN
       /\ Logged(p, <<Ev("can", resp, hdr[p])>>)
       /\ last_can_update_time' =
             IF exc = "none" /\ IsNonEmptyDict(CanBody(resp.body))
             THEN now[p] ELSE last_can_update_time
       /\ api_can_calls_failed_today' =
             api_can_calls_failed_today + (IF CanFailureCounted(exc) THEN 1 ELSE 0)
       /\ Publish(p, customer_data[p], can)
       /\ UNCHANGED <<session, reauth_initiated_at, counter_date, api_calls_today,
                      api_can_calls_today, api_calls_failed_today, options, util, host, clock,
                      customer_data>>

\* ------------------------------------------------------------------ clock
\* An operation lasts less than one tick: its requests time out within
\* minutes.
Tick ==
    /\ clock + TickHours <= MaxClock
    /\ opsStarted < MaxOps \/ \E p \in Coroutines : pc[p] # "idle"
    /\ \A p \in Coroutines : pc[p] # "idle" => now[p] = clock
    /\ clock' = clock + TickHours
    /\ UNCHANGED <<session, stamps, counters, options, util, host, data, locals, ghosts>>


\* --------------------------------------- forced refresh (async_force_refresh)
ForceStart == Start("force", FALSE)

ForceLogin(resp) ==
    /\ pc["force"] = "login"
    /\ LoginThen("force", resp, "cust", 1)

\* Faulty variant: the forced refresh honours the night throttle.
ForceWantsCanThrottled(asset) ==
    /\ asset # None
    /\ ~ThrottleCan(now["force"], night_start_hour, night_end_hour,
                    pre["force"].last_full)

\* The CAN request is sent whenever there is an asset id.
ForceWantsCan(asset) == asset # None

\* Faulty variant: the CAN loop goes on counting where the customer loop
\* stopped, so a retry spent on customer data is spent for CAN as well.
ForceCanFirstAttemptShared(att) == att

\* `for attempt in (1, 2)` of the CAN section: its own count, from 1.
ForceCanFirstAttempt(att) == 1

ForceCustomer(resp) ==
    /\ pc["force"] = "cust"
    /\ LET p   == "force"
           exc == ExcOf(resp.out)
           fa  == FirstAsset(CustomerBody(resp.body))
       IN
       /\ Logged(p, <<Ev("cust", resp, hdr[p])>>)
       /\ UNCHANGED <<customer_id, last_can_update_time, reauth_initiated_at,
                      counter_date, api_calls_today, api_can_calls_failed_today,
                      options, util, host, clock>>
       /\ CASE exc = "none" /\ fa.exc # "none" ->
                 \* the asset lookup raises: nothing catches it
                 /\ customer_data' = [customer_data EXCEPT ![p] = resp.body]
                 /\ End(p, fa.exc)
                 /\ UNCHANGED <<bearer_token, asset_id, last_full_update_time,
                                api_can_calls_today, api_calls_failed_today, data>>
            [] exc = "none" /\ fa.exc = "none" ->
                 /\ customer_data' = [customer_data EXCEPT ![p] = resp.body]
                 /\ asset_id' = fa.asset
                 /\ UNCHANGED <<bearer_token, api_calls_failed_today>>
                 /\ IF ForceWantsCan(fa.asset)
                    THEN /\ api_can_calls_today' = api_can_calls_today + 1
                         /\ Goto(p, "can", ForceCanFirstAttempt(attempt[p]), bearer_token)
                         /\ UNCHANGED <<last_full_update_time, data>>
                    ELSE /\ Publish(p, resp.body, "empty_object")
                         /\ UNCHANGED api_can_calls_today
            [] exc = "HTTPStatusError" /\ RetryOn401(resp.out, attempt[p]) ->
                 /\ bearer_token' = None
                 /\ Goto(p, "relogin", attempt[p], None)
                 /\ UNCHANGED <<asset_id, last_full_update_time, api_can_calls_today,
                                api_calls_failed_today, data, customer_data>>
            [] OTHER ->
                 \* any other status, a transport error, a malformed body
                 /\ api_calls_failed_today' = api_calls_failed_today + 1
                 /\ End(p, "UpdateFailed")
                 /\ UNCHANGED <<bearer_token, asset_id, last_full_update_time,
                                api_can_calls_today, data, customer_data>>

ForceRelogin(resp) ==
    /\ pc["force"] = "relogin"
    /\ LoginThen("force", resp, "cust", 2)

ForceCan(resp) ==
    /\ pc["force"] = "can"
    /\ LET p   == "force"
           exc == ExcOf(resp.out)
           can == IF exc = "none" THEN resp.body ELSE "empty_object"
       IN
       /\ Logged(p, <<Ev("can", resp, hdr[p])>>)
       /\ UNCHANGED <<customer_id, asset_id, reauth_initiated_at, counter_date,
                      api_calls_today, api_can_calls_today, api_calls_failed_today,
                      options, util, host, clock, customer_data>>
       /\ IF exc = "HTTPStatusError" /\ RetryOn401(resp.out, attempt[p])
          THEN /\ bearer_token' = None
               /\ Goto(p, "canrelogin", attempt[p], None)
               /\ UNCHANGED <<last_full_update_time, last_can_update_time,
                              api_can_calls_failed_today, data>>
          ELSE /\ last_can_update_time' =
                     IF exc = "none" /\ IsNonEmptyDict(CanBody(resp.body))
                     THEN now[p] ELSE last_can_update_time
               /\ api_can_calls_failed_today' =
                     api_can_calls_failed_today
                         + (IF CanFailureCounted(exc) THEN 1 ELSE 0)
               /\ Publish(p, customer_data[p], can)
               /\ UNCHANGED bearer_token

ForceCanRelogin(resp) ==
    /\ pc["force"] = "canrelogin"
    /\ LoginThen("force", resp, "can", 2)

\* ------------------------------------------------- async_send_can_command
\* `if not self.bearer_token or not self.asset_id`: nothing can be sent.
\* Faulty variant: only the token is looked at.
SendMissingTokenOnly(token, asset) == token = None
\* Faulty variant: only the asset id is looked at.
SendMissingAssetOnly(token, asset) == asset = None
SendMissing(token, asset) == token = None \/ asset = None

\* The POST raises for a 4xx/5xx status and for a transport error (the
\* 10 s timeout is one); its body is never parsed.
PostOuts == {"200", "401", "500", "timeout"}
PostResponses == {[out |-> o, body |-> "-"] : o \in PostOuts}
PostExc(out) == ExcOf(out)

\* Faulty variant: the refresh is asked for only after a successful POST.
SendRequestsRefreshOnSuccess(exc) == exc = "none"
\* `await self.async_request_refresh()` stands after the try/except, so it
\* runs whatever the POST raised (both exceptions are caught and logged).
SendRequestsRefresh(exc) == TRUE

\* The first lines of the command: either the early return (logged error,
\* nothing sent) or the POST with the stored token is issued.
SendStart ==
    /\ pc["send"] = "idle"
    /\ LET missing == SendMissing(bearer_token, asset_id) IN
       /\ pc' = [pc EXCEPT !["send"] = IF missing THEN "idle" ELSE "post"]
       /\ result' = Fresh(result, "send", IF missing THEN "noop" ELSE "none", "none")
    /\ now' = Fresh(now, "send", clock, Never)
    /\ throttle_can' = Fresh(throttle_can, "send", FALSE, FALSE)
    /\ attempt' = Fresh(attempt, "send", 1, 1)
    /\ hdr' = Fresh(hdr, "send", bearer_token, None)
    /\ customer_data' = Fresh(customer_data, "send", "-", "-")
    /\ log' = Fresh(log, "send", <<>>, <<>>)
    /\ pre' = Fresh(pre, "send", CurrentState, Snapshot)
    /\ UNCHANGED <<session, stamps, counters, options, util, host, data, clock, opsStarted>>

\* Faulty variant: a 401 answer to the POST clears the stored token, as a 401
\* answer to a refresh request does.
PostKeepsTokenUnless401(out, token) == IF out = "401" THEN None ELSE token
\* The except clauses of the command only log: the token stays whatever the
\* POST raised.
PostKeepsToken(out, token) == token

RefreshRequest == [req |-> "request_refresh", out |-> "-", body |-> "-", tok |-> "-"]

\* The answer to the POST, then the request for a normal coordinator refresh
\* (async_request_refresh: the next scheduled cycle, never the forced one).
SendPost(resp) ==
    /\ pc["send"] = "post"
    /\ LET exc == PostExc(resp.out)
           ask == SendRequestsRefresh(exc)
       IN  /\ Logged("send", <<Ev("post", resp, hdr["send"])>>
                              \o (IF ask THEN <<RefreshRequest>> ELSE <<>>))
           /\ refresh_requested' = (ask \/ refresh_requested)
    /\ bearer_token' = PostKeepsToken(resp.out, bearer_token)
    /\ End("send", "ok")
    /\ UNCHANGED <<customer_id, asset_id, stamps, counters, options, util, data,
                   clock, customer_data>>

\* ------------------------------------------------------------------- Next
\* The host runs the refresh operations one at a time.
ScheduledRefresh == pc["force"] = "idle" /\ SchedStart
ForcedRefresh    == pc["sched"] = "idle" /\ ForceStart

Next ==
    \/ ScheduledRefresh
    \/ \E resp \in LoginResponses : SchedLogin(resp)
    \/ \E resp \in CustomerResponses : SchedCustomer(resp)
    \/ \E resp \in LoginResponses : SchedRelogin(resp)
    \/ \E resp \in CanResponses : SchedCan(resp)
    \/ ForcedRefresh
    \/ \E resp \in LoginResponses : ForceLogin(resp)
    \/ \E resp \in CustomerResponses : ForceCustomer(resp)
    \/ \E resp \in LoginResponses : ForceRelogin(resp)
    \/ \E resp \in CanResponses : ForceCan(resp)
    \/ \E resp \in LoginResponses : ForceCanRelogin(resp)
    \/ Tick

Spec == Init /\ [][Next]_vars

\* The coordinator itself holds no lock: async_force_refresh is a plain
\* coroutine that runs from its first line when it is called, whatever the
\* scheduled cycle is doing, and the other way round.  The interleavings are
\* explored with one answer of each kind the code tells apart.
ConcLoginResponses ==
    {r \in LoginResponses : r.body = "cid_t1" \/ r.out = "401"}
ConcCustomerResponses ==
    {r \in CustomerResponses : r.body = "with_asset" \/ r.out \in {"401", "500"}}
ConcCanResponses ==
    {r \in CanResponses : r.body = "object" \/ r.out \in {"401", "500"}}

NextConc ==
    \/ SchedStart
    \/ \E resp \in ConcLoginResponses : SchedLogin(resp)
    \/ \E resp \in ConcCustomerResponses : SchedCustomer(resp)
    \/ \E resp \in ConcLoginResponses : SchedRelogin(resp)
    \/ \E resp \in ConcCanResponses : SchedCan(resp)
    \/ ForceStart
    \/ \E resp \in ConcLoginResponses : ForceLogin(resp)
    \/ \E resp \in ConcCustomerResponses : ForceCustomer(resp)
    \/ \E resp \in ConcLoginResponses : ForceRelogin(resp)
    \/ \E resp \in ConcCanResponses : ForceCan(resp)
    \/ \E resp \in ConcLoginResponses : ForceCanRelogin(resp)
    \/ Tick

SpecConc == Init /\ [][NextConc]_vars

\* The command sender is called by the entities whenever the user acts: it
\* runs next to the scheduled cycles, which serve its refresh requests, any
\* number of times.
NextSend ==
    \/ SchedStart
    \/ \E resp \in ConcLoginResponses : SchedLogin(resp)
    \/ \E resp \in ConcCustomerResponses : SchedCustomer(resp)
    \/ \E resp \in ConcLoginResponses : SchedRelogin(resp)
    \/ \E resp \in ConcCanResponses : SchedCan(resp)
    \/ SendStart
    \/ \E resp \in PostResponses : SendPost(resp)
    \/ Tick

SpecSend == Init /\ [][NextSend]_vars

\* ------------------------------------------------------ binary_sensor.py
\* Of the sample CAN bodies the object is the one with a `levels3` section.
HasLevels3(can) == can = "object"

\* SwiftCommandCanStatusSensor.is_on, on the published snapshot (None before
\* the first one).
CanStatusIsOn(snapshot) ==
    LET can == snapshot.can_bus_data IN
    IF can = "-" THEN FALSE
    ELSE IF ~IsNonEmptyDict(CanBody(can)) THEN FALSE
    ELSE HasLevels3(can)

\* ------------------------------------------------------------- button.py
\* SwiftCommandUpdateButton.async_press: `await
\* self.coordinator.async_request_refresh()`, the request the next scheduled
\* cycle serves.
ButtonPress ==
    /\ refresh_requested' = TRUE
    /\ UNCHANGED <<session, stamps, counters, options, util, data, clock,
                   locals, ghosts>>

NextButton ==
    \/ ScheduledRefresh
    \/ \E resp \in ConcLoginResponses : SchedLogin(resp)
    \/ \E resp \in ConcCustomerResponses : SchedCustomer(resp)
    \/ \E resp \in ConcLoginResponses : SchedRelogin(resp)
    \/ \E resp \in ConcCanResponses : SchedCan(resp)
    \/ ForcedRefresh
    \/ \E resp \in ConcLoginResponses : ForceLogin(resp)
    \/ \E resp \in ConcCustomerResponses : ForceCustomer(resp)
    \/ \E resp \in ConcLoginResponses : ForceRelogin(resp)
    \/ \E resp \in ConcCanResponses : ForceCan(resp)
    \/ \E resp \in ConcLoginResponses : ForceCanRelogin(resp)
    \/ ButtonPress
    \/ Tick

SpecButton == Init /\ [][NextButton]_vars

\* --------------------------------------------------------- config_flow.py
\* validate_input: the exception it raises for an answer of the login URL
\* ("none": the credentials are accepted).  A body that is not JSON raises
\* past its except clauses.
ValidateInput(resp) ==
    LET exc == ExcOf(resp.out) IN
    CASE exc = "none" ->
            LET b == LoginBody(resp.body) IN
            IF b.customerID = None \/ b.token = None THEN "InvalidAuth" ELSE "none"
      [] exc = "HTTPStatusError" ->
            IF resp.out = "401" THEN "InvalidAuth" ELSE "CannotConnect"
      [] exc = "RequestError" -> "CannotConnect"
      [] OTHER -> exc

\* ---------------------------------------------------------- pure functions
\* The helpers of util.py and validate_input leave the coordinator alone and
\* owe nothing to an earlier call, so a run applies one of them once.
CallPower ==
    /\ call = NoCall
    /\ \E amps \in AmpsSamples, mv \in VoltsSamples, dv \in DefaultSamples,
       absolute \in BOOLEAN :
        /\ call' = [fn |-> "calculate_power_watts", amps |-> amps,
                    measured_volts |-> mv, default_volts |-> dv,
                    absolute |-> absolute,
                    ret |-> CalculatePowerWatts(amps, mv, dv, absolute)]
        /\ UNCHANGED <<session, stamps, counters, options, host, data, clock,
                       locals, ghosts>>

CallNested ==
    /\ call = NoCall
    /\ \E d \in DataSamples, keys \in PathSamples :
        /\ call' = [fn |-> "get_nested_value", data |-> d, keys |-> keys,
                    ret |-> GetNestedValue(d, keys)]
        /\ UNCHANGED <<session, stamps, counters, options, host, data, clock,
                       locals, ghosts>>

\* The same login answer given to validate_input and to _login of a
\* coordinator that has no session yet.
CallValidateInput ==
    /\ call = NoCall
    /\ \E resp \in LoginResponses :
        /\ call' = [fn |-> "validate_input", resp |-> resp,
                    ret |-> ValidateInput(resp),
                    login |-> Login(resp, None, None).exc]
        /\ UNCHANGED <<session, stamps, counters, options, host, data, clock,
                       locals, ghosts>>

\* The night-mode predicate at one hour of the day, for options the options
\* form accepts: each hour an integer of 0..23, chosen independently.
OptionHours == 0 .. (HoursPerDay - 1)

CallIsNightTime ==
    /\ call = NoCall
    /\ \E hour \in OptionHours, ns \in OptionHours, ne \in OptionHours :
        /\ call' = [fn |-> "is_night_time", hour |-> hour,
                    night_start |-> ns, night_end |-> ne,
                    ret |-> IsNightTime(hour, ns, ne)]
        /\ UNCHANGED <<session, stamps, counters, options, host, data, clock,
                       locals, ghosts>>

NextUtil ==
    \/ CallPower
    \/ CallNested
    \/ CallValidateInput
    \/ CallIsNightTime

SpecUtil == Init /\ [][NextUtil]_vars

\* ------------------------------------------------- reading the record of a run
Last(sq) == sq[Len(sq)]

Idx(p) == DOMAIN log[p]

Count(p, req) == Cardinality({i \in Idx(p) : log[p][i].req = req})

\* Requests sent so far by the operation p, the one in flight included.
CustIssued(p) == Count(p, "cust") + (IF pc[p] = "cust" THEN 1 ELSE 0)
CanIssued(p)  == Count(p, "can") + (IF pc[p] = "can" THEN 1 ELSE 0)

Started(p)   == now[p] # Never
Completed(p) == pc[p] = "idle" /\ result[p] # "none"

\* The daily counters as the rollover at the start of p left them.
RolledOver(p) == pre[p].counter_date # Date(now[p])
Base(p) ==
    IF RolledOver(p)
    THEN [calls |-> 0, can_calls |-> 0, calls_failed |-> 0, can_calls_failed |-> 0]
    ELSE [calls |-> pre[p].calls, can_calls |-> pre[p].can_calls,
          calls_failed |-> pre[p].calls_failed,
          can_calls_failed |-> pre[p].can_calls_failed]

IsFirstCust(p, i) ==
    log[p][i].req = "cust" /\ \A j \in Idx(p) : j < i => log[p][j].req # "cust"

\* A login that returned both a customer id and a token.
LoginOk(e) == e.req = "login" /\ e.out = "200" /\ e.body = "cid_t1"

\* A customer-data fetch that succeeded: a 2xx answer whose body gave the
\* customer data and the asset id (null or not).
Fetched(e) ==
    /\ e.req = "cust" /\ e.out = "200"
    /\ e.body \in {"with_asset", "no_vehicles_key", "vehicle_without_asset"}

HasAsset(e) == e.body = "with_asset"

\* The operation p started in the night window less than 4 hours after the
\* last full update.
InNightThrottleWindow(p) ==
    /\ Started(p)
    /\ (Hour(now[p]) >= night_start_hour \/ Hour(now[p]) < night_end_hour)
    /\ pre[p].last_full # Never
    /\ now[p] - pre[p].last_full < 4

\* ---------------------------------------------------------------- claims

\* C1: in a scheduled cycle whose first customer-data request is answered 401,
\* whose silent re-login succeeds and whose retried request is answered 401
\* again, the cycle ends with a fatal update failure and the reauth-prompt
\* policy is invoked; with no reauth attempt in the last 6 hours exactly one
\* prompt is recorded in that cycle.
C1_Second401 ==
    \E i \in Idx("sched") :
        /\ i + 2 <= Len(log["sched"])
        /\ IsFirstCust("sched", i) /\ log["sched"][i].out = "401"
        /\ LoginOk(log["sched"][i + 1])
        /\ log["sched"][i + 2].req = "cust" /\ log["sched"][i + 2].out = "401"

C1_Second401PromptsReauth ==
    (pc["sched"] = "idle" /\ C1_Second401) =>
        /\ result["sched"] = "UpdateFailed"
        /\ Count("sched", "reauth") = 1
        /\ (pre["sched"].reauth = Never \/ now["sched"] - pre["sched"].reauth > 6) =>
              /\ Last(log["sched"]).req = "reauth"
              /\ Last(log["sched"]).out = "prompt"
              /\ reauth_initiated_at >= now["sched"]

\* C2: in a scheduled cycle a 401 on the first customer-data request clears the
\* token and is followed by exactly one re-login; when that login succeeds
\* exactly one further customer-data request is sent, with the token the login
\* stored, and never a third; when the retry succeeds the cycle returns a
\* snapshot, calls_total is 2 above and calls_failed equal to what the rollover
\* at the start of the cycle left.
C2_SingleRetry ==
    LET p == "sched"
        L == log[p]
    IN
    /\ CustIssued(p) <= 2
    /\ pc[p] = "relogin" => bearer_token = None
    /\ \A i \in Idx(p) :
         (IsFirstCust(p, i) /\ L[i].out = "401") =>
            /\ i = Len(L) => pc[p] = "relogin"
            /\ i < Len(L) => L[i + 1].req = "login"
            /\ \A j \in Idx(p) : j > i + 1 => L[j].req # "login"
            /\ (i < Len(L) /\ LoginOk(L[i + 1])) =>
                  /\ i + 1 = Len(L) =>
                        /\ pc[p] = "cust"
                        /\ hdr[p] # None /\ hdr[p] = L[i + 1].tok
                  /\ i + 2 <= Len(L) =>
                        /\ L[i + 2].req = "cust"
                        /\ L[i + 2].tok # None /\ L[i + 2].tok = L[i + 1].tok
                  /\ \A j \in Idx(p) : j > i + 2 => L[j].req # "cust"
                  /\ (i + 2 <= Len(L) /\ Fetched(L[i + 2]) /\ pc[p] = "idle") =>
                        /\ result[p] = "ok"
                        /\ data.customer_data = L[i + 2].body
                        /\ api_calls_today = Base(p).calls + 2
                        /\ api_calls_failed_today = Base(p).calls_failed

C2_Witness ==
    /\ Completed("sched") /\ result["sched"] = "ok"
    /\ \E i \in Idx("sched") :
         /\ i + 2 <= Len(log["sched"])
         /\ IsFirstCust("sched", i) /\ log["sched"][i].out = "401"
         /\ LoginOk(log["sched"][i + 1])
         /\ Fetched(log["sched"][i + 2])
    /\ api_calls_today = Base("sched").calls + 2

\* C3: when the customer-data fetch of a cycle (scheduled or forced) has
\* succeeded and the CAN fetch then fails with a timeout, a transport error, a
\* malformed body or a non-401 HTTP error, the cycle succeeds, its snapshot
\* carries the customer data and an empty CAN object, can_calls_failed is
\* exactly 1 above what the rollover left and last_can_update is unchanged.
C3_CanFailed(p) ==
    /\ Completed(p)
    /\ Len(log[p]) > 0
    /\ Last(log[p]).req = "can"
    /\ Last(log[p]).out \in {"timeout", "network", "bad_json", "500"}

C3_CanFailureNonFatal ==
    \A p \in Procs :
        C3_CanFailed(p) =>
            /\ result[p] = "ok"
            /\ \E i \in Idx(p) : Fetched(log[p][i]) /\ data.customer_data = log[p][i].body
            /\ data.can_bus_data = "empty_object"
            /\ api_can_calls_failed_today = Base(p).can_calls_failed + 1
            /\ last_can_update_time = pre[p].last_can

C3_Witness ==
    /\ C3_CanFailed("sched")
    /\ Last(log["sched"]).out = "bad_json"
    /\ pre["sched"].last_can # Never
    /\ ~RolledOver("sched")

\* C4: a scheduled cycle that starts inside the night window while
\* last_full_update is less than 4 hours old sends no CAN request and leaves
\* can_calls_total as the rollover left it, yet (once past its login) still
\* sends the customer-data request, and when that fetch succeeds the cycle
\* succeeds and last_full_update is the start time of the cycle.
C4_NightThrottle ==
    InNightThrottleWindow("sched") =>
        /\ CanIssued("sched") = 0
        /\ api_can_calls_today = Base("sched").can_calls
        /\ (Completed("sched") /\ CustIssued("sched") = 0) =>
              (Last(log["sched"]).req = "login" /\ ~LoginOk(Last(log["sched"])))
        /\ (Completed("sched") /\ \E i \in Idx("sched") : Fetched(log["sched"][i])) =>
              /\ result["sched"] = "ok"
              /\ last_full_update_time = now["sched"]
              /\ data.can_bus_data = "empty_object"

C4_Witness ==
    /\ InNightThrottleWindow("sched")
    /\ Completed("sched")
    /\ \E i \in Idx("sched") : Fetched(log["sched"][i]) /\ HasAsset(log["sched"][i])
    /\ last_full_update_time = now["sched"]
    /\ pre["sched"].last_full < now["sched"]

\* C5: a refresh (scheduled or forced) that starts on a date other than the
\* recorded counter date sets the four daily counters to zero before it counts
\* a call, so that the counters hold the calls of that refresh only; a refresh
\* on the recorded date resets nothing and counts on from the values it found.
C5_FailuresOf(p, req) ==
    Cardinality({i \in Idx(p) : log[p][i].req = req /\ log[p][i].out # "200"})

C5_RolloverOnNewDate ==
    \A p \in Procs :
        Started(p) =>
            LET from == IF pre[p].counter_date # Date(now[p])
                        THEN [calls |-> 0, can_calls |-> 0, calls_failed |-> 0,
                              can_calls_failed |-> 0]
                        ELSE pre[p]
            IN  /\ counter_date = Date(now[p])
                /\ api_calls_today = from.calls + CustIssued(p)
                /\ api_can_calls_today = from.can_calls + CanIssued(p)
                /\ api_calls_failed_today >= from.calls_failed
                /\ api_calls_failed_today <= from.calls_failed + C5_FailuresOf(p, "cust")
                /\ api_can_calls_failed_today >= from.can_calls_failed
                /\ api_can_calls_failed_today
                       <= from.can_calls_failed + C5_FailuresOf(p, "can")

C5_Witness ==
    \E p \in Procs :
        /\ Completed(p)
        /\ pre[p].counter_date # Never
        /\ pre[p].counter_date # Date(now[p])
        /\ pre[p].calls > 0 /\ pre[p].can_calls > 0
        /\ api_calls_today = CustIssued(p)
        /\ api_calls_today > 0

\* C6: a forced refresh whose customer-data fetch succeeds and yields an asset
\* id sends at least one CAN request, whatever the hour, the night window and
\* the age of last_full_update.
C6_ForcedAlwaysFetchesCan ==
    (\E i \in Idx("force") : Fetched(log["force"][i]) /\ HasAsset(log["force"][i]))
        => CanIssued("force") >= 1

C6_Witness ==
    /\ InNightThrottleWindow("force")
    /\ \E i \in Idx("force") : Fetched(log["force"][i]) /\ HasAsset(log["force"][i])
    /\ CanIssued("force") >= 1
    /\ Completed("force")

\* C7: a forced refresh whose customer-data fetch succeeded never fails because
\* of CAN: every CAN failure, a 401 on both CAN attempts and a failed re-login
\* after a CAN 401 included, is swallowed and counted in can_calls_failed, and
\* the refresh completes and publishes a snapshot.
C7_ForcedCanNeverFatal ==
    (Completed("force") /\ \E i \in Idx("force") : Fetched(log["force"][i])) =>
        /\ result["force"] = "ok"
        /\ last_full_update_time = now["force"]
        /\ \E i \in Idx("force") :
               Fetched(log["force"][i]) /\ data.customer_data = log["force"][i].body
        /\ (\A i \in Idx("force") : log["force"][i].req = "can" => log["force"][i].out # "200")
               => api_can_calls_failed_today
                      = Base("force").can_calls_failed + (IF CanIssued("force") > 0 THEN 1 ELSE 0)

\* C8: when a successful customer-data response has no vehicle list or an empty
\* vehicle list, the asset id becomes null, no CAN request is sent and the cycle
\* (scheduled or forced) succeeds with a snapshot whose CAN object is empty.
C8_NoVehicle(p) ==
    /\ Completed(p)
    /\ \E i \in Idx(p) :
          /\ log[p][i].req = "cust" /\ log[p][i].out = "200"
          /\ log[p][i].body \in {"no_vehicles_key", "empty_vehicles"}

C8_NoVehicleGivesNullAsset ==
    \A p \in Procs :
        C8_NoVehicle(p) =>
            /\ asset_id = None
            /\ CanIssued(p) = 0
            /\ result[p] = "ok"
            /\ data.can_bus_data = "empty_object"

\* C9 (as stated): an invocation of the reauth-prompt policy less than 6 hours
\* after the last recorded attempt is suppressed and leaves the recorded time
\* unchanged; any other invocation records the current time.
C9_Invoked ==
    /\ pc["sched"] = "relogin"
    /\ Len(log'["sched"]) > 0
    /\ Last(log'["sched"]).req = "reauth"

C9_SuppressedBelowSixHours ==
    [][C9_Invoked =>
         IF reauth_initiated_at # Never /\ clock - reauth_initiated_at < 6
         THEN /\ Last(log'["sched"]).out = "suppressed"
              /\ reauth_initiated_at' = reauth_initiated_at
         ELSE /\ Last(log'["sched"]).out = "prompt"
              /\ reauth_initiated_at' = clock]_vars

\* C9 (amended): two reauth prompts are never recorded within one 6-hour
\* window: an invocation of the reauth-prompt policy at most 6 hours after the
\* last recorded attempt is suppressed, signals nothing and leaves the recorded
\* time unchanged; an invocation more than 6 hours after it, or with no attempt
\* recorded, records the current time.
C9_SuppressedWithinSixHours ==
    [][C9_Invoked =>
         IF reauth_initiated_at # Never /\ clock - reauth_initiated_at <= 6
         THEN /\ Last(log'["sched"]).out = "suppressed"
              /\ reauth_initiated_at' = reauth_initiated_at
         ELSE /\ Last(log'["sched"]).out = "prompt"
              /\ reauth_initiated_at' = clock]_vars

C9_Witness ==
    /\ Completed("sched")
    /\ Last(log["sched"]).req = "reauth"
    /\ Last(log["sched"]).out = "suppressed"
    /\ pre["sched"].reauth # Never
    /\ now["sched"] - pre["sched"].reauth = 6
    /\ reauth_initiated_at = pre["sched"].reauth

\* C10: in a scheduled cycle a customer-data request that fails with a non-401
\* HTTP status or with a network error increments calls_failed by exactly 1 and
\* ends the cycle at once with a fatal update failure: no login, no second
\* customer-data request and no CAN request follow it.
C10_NonAuthFailureIsFatal ==
    \A i \in Idx("sched") :
        (log["sched"][i].req = "cust"
            /\ log["sched"][i].out \in {"500", "network", "timeout"}) =>
            /\ i = Len(log["sched"])
            /\ pc["sched"] = "idle"
            /\ result["sched"] = "UpdateFailed"
            /\ api_calls_failed_today = Base("sched").calls_failed + 1
            /\ last_full_update_time = pre["sched"].last_full

C10_Witness ==
    /\ Completed("sched")
    /\ Len(log["sched"]) = 1
    /\ log["sched"][1].req = "cust"
    /\ log["sched"][1].out = "500"
    /\ api_calls_failed_today = 2

\* C11: in both the scheduled cycle and the forced refresh every kind of
\* customer-data failure (transport error, timeout, non-2xx status, malformed
\* JSON body, unexpected body shape) leaves the operation as the failed-update
\* signal; no other exception type escapes.
C11_CustomerFailureIsUpdateFailed ==
    \A p \in Procs :
        (Completed(p) /\ Len(log[p]) > 0
            /\ Last(log[p]).req = "cust" /\ ~Fetched(Last(log[p])))
        => result[p] = "UpdateFailed"

\* C12: whenever a customer-data request is answered 401, on the first attempt
\* or on the retry, the bearer token is cleared, so that a cycle ending in an
\* authentication failure leaves the coordinator with no token and the next
\* cycle starts with a login.
C12_UnauthorizedClearsToken ==
    \A p \in Procs :
        (Len(log[p]) > 0 /\ Last(log[p]).req = "cust" /\ Last(log[p]).out = "401")
        => bearer_token = None

\* C17: every snapshot returned by a scheduled cycle or published by a forced
\* refresh has a can_bus_data that is a JSON object (possibly empty), whatever
\* body the CAN endpoint returned.
C17_CanDataIsObject ==
    data # NoSnapshot => data.can_bus_data \in {"object", "empty_object"}

\* C18: last_full_update is the start time of every scheduled cycle and every
\* forced refresh whose customer-data fetch succeeded, whatever happens to the
\* CAN fetch afterwards, and an operation whose customer-data fetch failed
\* leaves it as it was.
C18_FullUpdateFollowsCustomerFetch ==
    \A p \in Procs :
        Completed(p) =>
            IF \E i \in Idx(p) : Fetched(log[p][i])
            THEN last_full_update_time = now[p]
            ELSE last_full_update_time = pre[p].last_full

\* C19: last_can_update changes only in an operation whose CAN fetch returned
\* a non-empty JSON object, and then becomes the start time of that operation;
\* a throttled cycle, a cycle without asset id, a failed CAN fetch, an empty
\* object and a non-object body all leave it unchanged.
C19_GotCanPayload(p) ==
    \E i \in Idx(p) :
        /\ log[p][i].req = "can" /\ log[p][i].out = "200"
        /\ log[p][i].body = "object"

C19_CanUpdateOnlyOnPayload ==
    \A p \in Procs :
        Started(p) =>
            IF C19_GotCanPayload(p)
            THEN last_can_update_time = now[p]
            ELSE last_can_update_time = pre[p].last_can

C19_Witness ==
    \E p \in Procs :
        /\ Completed(p) /\ result[p] = "ok"
        /\ Last(log[p]).req = "can" /\ Last(log[p]).out = "200"
        /\ Last(log[p]).body = "array"
        /\ pre[p].last_can # Never
        /\ pre[p].last_can < now[p]
        /\ last_can_update_time = pre[p].last_can

\* C20: over any sequence of scheduled and forced refreshes, calls_total grows
\* by exactly one with each customer-data request sent (retries after a 401
\* included) and can_calls_total by exactly one with each CAN request sent, in
\* the step that sends the request; no counter decreases unless the counter
\* date changes.
C20_CustSent == Cardinality({p \in Procs : pc[p] # "cust" /\ pc'[p] = "cust"})
C20_CanSent  == Cardinality({p \in Procs : pc[p] # "can" /\ pc'[p] = "can"})

C20_CountersCountRequests ==
    [][IF counter_date' = counter_date
       THEN /\ api_calls_today' = api_calls_today + C20_CustSent
            /\ api_can_calls_today' = api_can_calls_today + C20_CanSent
            /\ api_calls_failed_today' >= api_calls_failed_today
            /\ api_can_calls_failed_today' >= api_can_calls_failed_today
       ELSE /\ api_calls_today' = C20_CustSent
            /\ api_can_calls_today' = 0
            /\ api_calls_failed_today' = 0
            /\ api_can_calls_failed_today' = 0]_vars

C20_Witness ==
    \E p \in Procs :
        /\ Completed(p)
        /\ ~RolledOver(p)
        /\ pre[p].calls > 0 /\ pre[p].can_calls > 0
        /\ CustIssued(p) = 2 /\ CanIssued(p) >= 1
        /\ api_calls_today = pre[p].calls + 2
        /\ api_can_calls_today = pre[p].can_calls + CanIssued(p)

\* C13: a login completes successfully only when the response carries both a
\* customer id and a token that is not the literal string "null"; a response
\* without customer id, without token, or with the token "null" raises the
\* authentication error (the operation ends with the failed-update signal and
\* sends nothing more).
C13_Complete(b) ==
    /\ LoginBody(b).customerID # None
    /\ LoginBody(b).token # None
    /\ LoginBody(b).token # "null"

C13_LoginNeedsIdAndToken ==
    \A p \in Procs : \A i \in Idx(p) :
        (log[p][i].req = "login" /\ log[p][i].out = "200") =>
            LET went_on == IF i = Len(log[p]) THEN pc[p] \in {"cust", "can"}
                           ELSE log[p][i + 1].req \in {"cust", "can"}
            IN  /\ went_on => C13_Complete(log[p][i].body)
                /\ ~C13_Complete(log[p][i].body) =>
                      /\ ~went_on
                      /\ pc[p] = "idle" /\ result[p] = "UpdateFailed"
                      /\ \A j \in Idx(p) : j > i => log[p][j].req = "reauth"

C13_Witness ==
    \E p \in Procs :
        /\ Completed(p) /\ result[p] = "UpdateFailed"
        /\ Len(log[p]) = 1
        /\ log[p][1].req = "login" /\ log[p][1].out = "200"
        /\ log[p][1].body = "cid_null"
        /\ bearer_token = None

\* C14: no two refresh operations of the coordinator are ever in flight
\* together: a forced refresh started while a scheduled cycle is suspended on
\* network I/O (or the reverse) touches nothing until the other has finished.
C14_OneRefreshAtATime ==
    ~(pc["sched"] # "idle" /\ pc["force"] # "idle")

\* A step in which the send-command is invoked: the sender leaves its idle
\* state or returns at once, while the clock and the refreshes stay where
\* they are.
SendInvoked ==
    /\ pc["send"] = "idle"
    /\ now'["send"] = clock
    /\ clock' = clock
    /\ pc'["sched"] = pc["sched"]
    /\ pc'["force"] = pc["force"]

\* C15: the send-command invoked while the token or the asset id is missing
\* is a no-op: it returns at once without a POST in flight, requests no
\* refresh, and changes no session field, counter, timestamp or snapshot.
C15_SendWithoutSessionIsNoOp ==
    [][(SendInvoked /\ (bearer_token = None \/ asset_id = None)) =>
          /\ pc'["send"] = "idle"
          /\ result'["send"] = "noop"
          /\ log'["send"] = <<>>
          /\ refresh_requested' = refresh_requested
          /\ UNCHANGED <<session, counters, stamps, data>>]_vars

C15_Witness ==
    /\ pc["send"] = "idle"
    /\ result["send"] = "noop"
    /\ log["send"] = <<>>
    /\ pre["send"].bearer_token # None
    /\ pre["send"].asset_id = None

\* C16: the send-command invoked with token and asset id present issues
\* exactly one POST and never repeats it; whether the POST succeeds, returns
\* an error status or fails in transport, exactly one refresh is requested
\* afterwards, and that request is served by a scheduled cycle (which applies
\* the night throttle), never by the forced refresh.
C16_OnePostThenOneRefresh ==
    /\ [][(SendInvoked /\ bearer_token # None /\ asset_id # None) =>
             (pc'["send"] = "post" /\ hdr'["send"] = bearer_token)]_vars
    /\ [](pc["send"] = "post" => log["send"] = <<>>)
    /\ []((pc["send"] = "idle" /\ result["send"] = "ok") =>
             /\ Len(log["send"]) = 2
             /\ log["send"][1].req = "post"
             /\ log["send"][2] = RefreshRequest
             /\ refresh_requested)
    /\ [][(refresh_requested /\ ~refresh_requested') =>
             /\ pc["sched"] = "idle" /\ pc'["sched"] # "idle"
             /\ pc'["force"] = pc["force"]
             /\ throttle_can'["sched"] =
                   ThrottleCan(clock, night_start_hour, night_end_hour,
                               last_full_update_time)]_vars

C16_Witness ==
    /\ pc["send"] = "idle"
    /\ result["send"] = "ok"
    /\ Len(log["send"]) = 2
    /\ log["send"][1].req = "post"
    /\ log["send"][1].out \in {"500", "timeout"}
    /\ log["send"][2] = RefreshRequest
    /\ refresh_requested

\* The body of the last customer-data answer in a record.
LastCustBody(lg) ==
    lg[CHOOSE i \in DOMAIN lg :
          lg[i].req = "cust" /\ \A j \in DOMAIN lg : lg[j].req = "cust" => j <= i].body

\* The CAN section a record ends with: the body of a CAN answer 200, else {}.
LastCanBody(lg) ==
    IF Last(lg).req = "can" /\ Last(lg).out = "200" THEN Last(lg).body
    ELSE "empty_object"

\* C21: a forced refresh that completes publishes its snapshot
\* {customer_data, can_bus_data} in the very step in which it completes, and
\* touches the published snapshot in no other step; a forced refresh that
\* fails fatally publishes nothing, so the snapshot published before stays.
C21_ForcedPublishesOnce ==
    [][pc["force"] # "idle" =>
          IF pc'["force"] = "idle" /\ result'["force"] = "ok"
          THEN data' = [customer_data |-> LastCustBody(log'["force"]),
                        can_bus_data  |-> LastCanBody(log'["force"])]
          ELSE data' = data]_vars

C21_Witness ==
    /\ Completed("force") /\ result["force"] = "ok"
    /\ opsStarted = 2
    /\ Last(log["force"]).req = "can" /\ Last(log["force"]).out = "200"
    /\ data = [customer_data |-> "with_asset", can_bus_data |-> "object"]

IsFirstCan(p, i) ==
    log[p][i].req = "can" /\ \A j \in Idx(p) : j < i => log[p][j].req # "can"

\* What every forced refresh keeps to: at most two requests of each kind, and
\* a 401 on the first CAN attempt clears the token and is followed by one
\* re-login and no other.
C22_CanRetryFrame ==
    LET p == "force"
        L == log[p]
    IN
    /\ CustIssued(p) <= 2
    /\ CanIssued(p) <= 2
    /\ pc[p] = "canrelogin" => bearer_token = None
    /\ \A i \in Idx(p) :
         (IsFirstCan(p, i) /\ L[i].out = "401") =>
            /\ i = Len(L) => pc[p] = "canrelogin"
            /\ i < Len(L) => L[i + 1].req = "login"
            /\ \A j \in Idx(p) : j > i + 1 => L[j].req # "login"

\* C22 as stated: in a forced refresh a 401 on the first CAN attempt clears
\* the token and is followed by exactly one re-login and exactly one further
\* CAN attempt, whether or not the customer-data fetch used its retry; never
\* more than two customer-data and two CAN requests.
C22_CanRetriedAfterEvery401 ==
    /\ C22_CanRetryFrame
    /\ (Completed("force")
          /\ \E i \in Idx("force") :
                IsFirstCan("force", i) /\ log["force"][i].out = "401")
       => Count("force", "can") = 2

\* C22, amended: the further CAN attempt is made when the re-login succeeds,
\* exactly once and with the token that login stored; when the re-login fails
\* no further CAN request is sent.
C22_CanRetriedAfterRelogin ==
    /\ C22_CanRetryFrame
    /\ LET p == "force"
           L == log[p]
       IN \A i \in Idx(p) :
            (IsFirstCan(p, i) /\ L[i].out = "401" /\ i < Len(L)) =>
               IF LoginOk(L[i + 1])
               THEN /\ i + 1 = Len(L) =>
                          /\ pc[p] = "can"
                          /\ hdr[p] # None /\ hdr[p] = L[i + 1].tok
                    /\ i + 2 <= Len(L) =>
                          /\ L[i + 2].req = "can"
                          /\ L[i + 2].tok # None /\ L[i + 2].tok = L[i + 1].tok
                          /\ i + 2 = Len(L) /\ pc[p] = "idle"
               ELSE i + 1 = Len(L) /\ pc[p] = "idle"

C22_Witness ==
    LET L == log["force"] IN
    /\ Completed("force") /\ result["force"] = "ok"
    /\ Count("force", "cust") = 2
    /\ Count("force", "can") = 2
    /\ \E i \in Idx("force") :
         /\ i + 2 = Len(L)
         /\ IsFirstCan("force", i) /\ L[i].out = "401"
         /\ LoginOk(L[i + 1])
         /\ L[i + 2].req = "can"

\* C23: the reauth-prompt policy is invoked only at the end of a scheduled
\* cycle that has run out of retries after a 401 (the customer-data request
\* answered 401, then the re-login failed): never by the forced refresh or
\* the send-command, never in a cycle that succeeds, never after a CAN
\* request, and the time of the last reauth attempt changes in no other step.
C23_ReauthOnlyFromNoMoreRetries ==
    /\ [](\A p \in Coroutines : \A i \in Idx(p) :
            log[p][i].req = "reauth" =>
               /\ p = "sched"
               /\ i = Len(log[p]) /\ i >= 3
               /\ log[p][i - 1].req = "login" /\ ~LoginOk(log[p][i - 1])
               /\ log[p][i - 2].req = "cust" /\ log[p][i - 2].out = "401"
               /\ Count(p, "can") = 0
               /\ pc[p] = "idle" /\ result[p] = "UpdateFailed")
    /\ [][reauth_initiated_at' # reauth_initiated_at =>
             /\ pc["sched"] = "relogin" /\ pc'["sched"] = "idle"
             /\ Last(log'["sched"]).req = "reauth"
             /\ Last(log'["sched"]).out = "prompt"]_vars

C23_Witness ==
    /\ Completed("sched") /\ result["sched"] = "UpdateFailed"
    /\ Len(log["sched"]) >= 3
    /\ Last(log["sched"]).req = "reauth" /\ Last(log["sched"]).out = "prompt"
    /\ reauth_initiated_at = now["sched"]

\* The nearest tenths to a product given in hundredths.
IsRoundedToOneDecimal(w, h) == Abs(10 * w - h) <= 5

C25_MeasuredUsedOnlyWhenTruthy ==
    (call.fn = "calculate_power_watts" /\ call.absolute /\ call.amps.t = "num") =>
        LET truthy == call.measured_volts.t = "num" /\ call.measured_volts.v # 0
            v      == IF truthy THEN call.measured_volts.v ELSE call.default_volts.v
        IN  /\ call.ret.t = "num"
            /\ IsRoundedToOneDecimal(call.ret.v, Abs(call.amps.v) * v)

\* The walk the lookup is said to make, one path element after the other.
C26_CanStep(cur, key) ==
    \/ cur.t = "dict" /\ key.t = "str" /\ key.v \in DOMAIN cur.v
    \/ cur.t = "list" /\ key.t = "int" /\ key.v >= 0 /\ key.v + 1 \in DOMAIN cur.v

RECURSIVE C26_Lookup(_, _)
C26_Lookup(cur, path) ==
    IF path = <<>> THEN cur
    ELSE IF C26_CanStep(cur, Head(path))
         THEN C26_Lookup(IF cur.t = "dict" THEN cur.v[Head(path).v]
                         ELSE cur.v[Head(path).v + 1], Tail(path))
         ELSE NoneV

\* C26: the nested-value lookup returns the value reached by walking the
\* whole path (dictionary keys and in-range non-negative list indices) and
\* None as soon as one step cannot be taken; on {"a":{"b":[{"c":1}]}} the
\* path ["a","b",0,"c"] gives 1 and ["a","x"] gives None.
C26_NestedLookup ==
    call.fn = "get_nested_value" =>
        /\ call.ret = C26_Lookup(call.data, call.keys)
        /\ (call.data = SpecExample
              /\ call.keys = <<KStr("a"), KStr("b"), KInt(0), KStr("c")>>)
           => call.ret = Num(1)
        /\ (call.data = SpecExample /\ call.keys = <<KStr("a"), KStr("x")>>)
           => call.ret = NoneV

C26_Witness ==
    /\ call.fn = "get_nested_value"
    /\ call.data = SpecExample
    /\ call.keys = <<KStr("a"), KStr("b"), KInt(0), KStr("c")>>
    /\ call.ret = Num(1)

\* C27: the refresh a press of the Update Now button runs is the forced one:
\* with an asset id present and the press served inside the night-throttle
\* window less than 4 hours after a full update, the refresh that starts is
\* not throttled, so it goes on to the CAN request.
C27_ButtonRefreshIgnoresThrottle ==
    [][(/\ refresh_requested /\ ~refresh_requested'
        /\ asset_id # None
        /\ ThrottleCan(clock, night_start_hour, night_end_hour,
                       last_full_update_time))
       => \E p \in Procs :
             pc[p] = "idle" /\ pc'[p] # "idle" /\ ~throttle_can'[p]]_vars

\* C28: in a scheduled cycle a 401 on the CAN request is not fatal: the cycle
\* returns the customer data with an empty CAN object, can_calls_failed is 1
\* above what the rollover left, the token stays, and neither a re-login nor
\* a second CAN request follows.
C28_SchedCan401NonFatal ==
    LET p == "sched"
        L == log[p]
    IN \A i \in Idx(p) :
         (L[i].req = "can" /\ L[i].out = "401") =>
            /\ i = Len(L) /\ i >= 2
            /\ Count(p, "can") = 1
            /\ pc[p] = "idle" /\ result[p] = "ok"
            /\ Fetched(L[i - 1])
            /\ data = [customer_data |-> L[i - 1].body,
                       can_bus_data  |-> "empty_object"]
            /\ api_can_calls_failed_today = Base(p).can_calls_failed + 1
            /\ api_can_calls_today = Base(p).can_calls + 1
            /\ bearer_token # None /\ bearer_token = L[i].tok

C28_Witness ==
    /\ Completed("sched") /\ result["sched"] = "ok"
    /\ Len(log["sched"]) >= 2
    /\ Last(log["sched"]).req = "can" /\ Last(log["sched"]).out = "401"
    /\ data.can_bus_data = "empty_object"
    /\ bearer_token # None

\* C29: the config-flow validation and the login of the coordinator accept
\* exactly the same login answers; an answer whose token is the literal
\* string "null" is rejected by both.
C29_SameLoginAcceptance ==
    call.fn = "validate_input" =>
        /\ (call.ret = "none") <=> (call.login = "none")
        /\ (call.resp.out = "200" /\ LoginBody(call.resp.body).token = "null") =>
              (call.ret # "none" /\ call.login # "none")

\* C30: in every reachable state a stored bearer token comes with a stored
\* customer id: a login that raises leaves no token behind, so no later cycle
\* skips the login and asks for customer data without a customer id.
C30_TokenImpliesCustomerId ==
    bearer_token # None => customer_id # None

\* C31: in every reachable state, those reached by interleaving a forced
\* refresh with a scheduled cycle across a date rollover included, the failed
\* requests of the day are no more than the requests of the day:
\* calls_failed <= calls_total and can_calls_failed <= can_calls_total.
C31_FailedAtMostTotal ==
    /\ api_calls_failed_today <= api_calls_today
    /\ api_can_calls_failed_today <= api_can_calls_today

\* C32: every scheduled cycle that sent at least one customer-data request
\* and ends with the fatal update failure leaves calls_failed exactly 1 above
\* what the rollover at its start left, whichever path made it fatal (an
\* error other than 401, a second 401, a failed re-login after a 401).
C32_FatalCycleCountsOneFailure ==
    (/\ Completed("sched") /\ result["sched"] = "UpdateFailed"
     /\ Count("sched", "cust") >= 1)
    => api_calls_failed_today = Base("sched").calls_failed + 1

\* C33: a scheduled cycle that ends with the fatal update failure leaves
\* asset_id, last_full_update and last_can_update as they were before it
\* started, and the published snapshot and the options as they are; what it
\* may change are the daily counters, the token, the customer id and the time
\* of the last reauth attempt.
C33_FatalCycleFrame ==
    /\ []((Completed("sched") /\ result["sched"] = "UpdateFailed") =>
             /\ asset_id = pre["sched"].asset_id
             /\ last_full_update_time = pre["sched"].last_full
             /\ last_can_update_time = pre["sched"].last_can)
    /\ [][(pc["sched"] # "idle" /\ ~(pc'["sched"] = "idle" /\ result'["sched"] = "ok"))
             => (data' = data /\ UNCHANGED options)]_vars

C33_Witness ==
    /\ Completed("sched") /\ result["sched"] = "UpdateFailed"
    /\ pre["sched"].asset_id # None
    /\ pre["sched"].last_can # Never
    /\ Count("sched", "cust") = 1
    /\ Last(log["sched"]).req = "reauth"
    /\ asset_id = pre["sched"].asset_id
    /\ bearer_token # pre["sched"].bearer_token

\* C34: a throttled scheduled cycle that succeeds sends no CAN request and
\* returns a snapshot whose can_bus_data is the empty object: the CAN payload
\* published before is not carried over, and the CAN status sensor reading
\* the latest snapshot is off.
C34_ThrottledSnapshotHasNoCan ==
    (Completed("sched") /\ result["sched"] = "ok" /\ throttle_can["sched"]) =>
        /\ Count("sched", "can") = 0
        /\ data.can_bus_data = "empty_object"
        /\ data.customer_data = LastCustBody(log["sched"])
        /\ ~CanStatusIsOn(data)

C34_Witness ==
    /\ Completed("sched") /\ result["sched"] = "ok" /\ throttle_can["sched"]
    /\ asset_id # None
    /\ pre["sched"].last_can # Never
    /\ data.can_bus_data = "empty_object"
    /\ ~CanStatusIsOn(data)

\* C35: night throttling sustains itself.  Every successful scheduled cycle,
\* throttled or not, sets last_full_update to its start time; a scheduled
\* cycle that starts in the night window less than 4 hours after the last
\* full update is throttled and sends no CAN request; a scheduled cycle that
\* sends a CAN request at night found last_full_update unset or at least 4
\* hours old.
C35_NightThrottleSustains ==
    LET p == "sched" IN
    /\ (Completed(p) /\ result[p] = "ok") => last_full_update_time = now[p]
    /\ InNightThrottleWindow(p) => (throttle_can[p] /\ CanIssued(p) = 0)
    /\ (/\ Started(p) /\ CanIssued(p) > 0
        /\ IsNightTime(Hour(now[p]), night_start_hour, night_end_hour))
       => (pre[p].last_full = Never \/ now[p] - pre[p].last_full >= ThrottleHours)

C35_Witness ==
    LET p == "sched" IN
    /\ Completed(p) /\ result[p] = "ok"
    /\ InNightThrottleWindow(p)
    /\ throttle_can[p]
    /\ asset_id # None
    /\ now[p] > pre[p].last_full
    /\ last_full_update_time = now[p]

\* C36: when night_start_hour <= night_end_hour, two hours the options form
\* accepts, the night-mode predicate holds at every hour 0..23.
C36_NightAllDay ==
    (call.fn = "is_night_time" /\ call.night_start <= call.night_end)
        => call.ret = TRUE

\* The window 8..20 and an hour outside it.
C36_Witness ==
    /\ call.fn = "is_night_time"
    /\ call.night_start = 8 /\ call.night_end = 20
    /\ call.hour = 22
    /\ call.ret = TRUE

\* C37: after every completed scheduled cycle or forced refresh (operations
\* are serialized and the clock never goes backwards), a non-null
\* last_can_update implies a non-null last_full_update with
\* last_can_update <= last_full_update.
C37_CanStampNotAfterFullStamp ==
    \A p \in Procs :
        (Completed(p) /\ last_can_update_time # Never) =>
            /\ last_full_update_time # Never
            /\ last_can_update_time <= last_full_update_time

\* A later operation that brought no CAN payload moved last_full_update past
\* last_can_update.
C37_Witness ==
    \E p \in Procs :
        /\ Completed(p)
        /\ pre[p].last_can # Never
        /\ last_can_update_time = pre[p].last_can
        /\ last_full_update_time = now[p]
        /\ last_can_update_time < last_full_update_time

\* C38: the POST of send-command changes no coordinator state: no daily
\* counter, no date rollover, no timestamp, no session field and no snapshot
\* moves in the step that receives its answer, whatever the answer (HTTP 401
\* included); it sends no login request and raises no reauth prompt; the one
\* thing it leaves behind is the request for a refresh.
C38_PostChangesNoState ==
    [][(pc["send"] = "post" /\ pc'["send"] = "idle") =>
          /\ UNCHANGED <<session, counters, stamps, data, options, clock>>
          /\ pc'["sched"] = pc["sched"] /\ pc'["force"] = pc["force"]
          /\ \A i \in 1..Len(log'["send"]) :
                log'["send"][i].req \in {"post", "request_refresh"}
          /\ refresh_requested']_vars

\* The POST was answered 401 while a token was held: the token is still
\* there, no reauth prompt was raised, a refresh is requested.
C38_Witness ==
    /\ pc["send"] = "idle" /\ result["send"] = "ok"
    /\ Len(log["send"]) = 2
    /\ log["send"][1].req = "post" /\ log["send"][1].out = "401"
    /\ pc["sched"] = "idle"
    /\ bearer_token # None /\ bearer_token = pre["send"].bearer_token
    /\ reauth_initiated_at = Never
    /\ counter_date = pre["send"].counter_date
    /\ api_calls_today = pre["send"].calls
    /\ api_calls_failed_today = pre["send"].calls_failed
    /\ refresh_requested

\* C39: send-command reads the token without synchronising with a refresh in
\* flight.  Invoked while the scheduled cycle is suspended in the re-login
\* that follows a 401, it finds the token cleared: it returns at once, with
\* no POST and no refresh request, even when the coordinator held a token and
\* an asset id before that cycle started.
C39_SendDuringReloginIsNoOp ==
    [][(SendInvoked /\ pc["sched"] = "relogin") =>
          /\ bearer_token = None
          /\ pc'["send"] = "idle"
          /\ result'["send"] = "noop"
          /\ log'["send"] = <<>>
          /\ refresh_requested' = refresh_requested]_vars

C39_Witness ==
    /\ pc["sched"] = "relogin"
    /\ pre["sched"].bearer_token # None
    /\ pre["sched"].asset_id # None
    /\ asset_id # None
    /\ bearer_token = None
    /\ pc["send"] = "idle" /\ result["send"] = "noop"
    /\ now["send"] = clock
    /\ log["send"] = <<>>
    /\ ~refresh_requested

====
